---- MODULE Spec2Model ----
(***************************************************************************)
(* The number pairing problem: split a sum into two numbers so that        *)
(* |a - b| * (a * b) is largest.  NumberPairing is the candidate split,     *)
(* NumberPairingProblem::solve the iterative refinement search over it.    *)
(* The program computes in f64; the model keeps f64 exactly (binary64,     *)
(* round-to-nearest-even) on top of naturals of any size, because the      *)
(* search's comparisons, ties and stopping rule depend on the rounding.    *)
(***************************************************************************)
EXTENDS Integers, Sequences, FiniteSets, TLC

\* ---------- naturals of any size: little-endian limbs, base 2^15 ----------
\* (TLC's integers are 32-bit: a limb times a limb plus a carry fits)
LimbBits == 15
Base == 2^LimbBits

RECURSIVE BNorm(_)
BNorm(a) ==
  IF a = <<>> THEN a
  ELSE IF a[Len(a)] = 0 THEN BNorm(SubSeq(a, 1, Len(a) - 1)) ELSE a

BFromInt(n) ==
  IF n = 0 THEN <<>>
  ELSE IF n < Base THEN <<n>>
  ELSE IF n < Base * Base THEN <<n % Base, n \div Base>>
  ELSE <<n % Base, (n \div Base) % Base, n \div (Base * Base)>>

BLimb(a, n) == IF n <= Len(a) THEN a[n] ELSE 0

\* a + b + c from limb n on, s the sum of the limbs at n
RECURSIVE BAddC(_, _, _, _)
BAddS(a, b, n, s) == <<s % Base>> \o BAddC(a, b, n + 1, s \div Base)
BAddC(a, b, n, c) ==
  IF n > Len(a) /\ n > Len(b) THEN (IF c = 0 THEN <<>> ELSE <<c>>)
  ELSE BAddS(a, b, n, BLimb(a, n) + BLimb(b, n) + c)

BAdd(a, b) == BAddC(a, b, 1, 0)

RECURSIVE BSubC(_, _, _, _)
BSubS(a, b, n, s) ==
  IF s < 0 THEN <<s + Base>> \o BSubC(a, b, n + 1, 1)
  ELSE <<s>> \o BSubC(a, b, n + 1, 0)
BSubC(a, b, n, c) ==
  IF n > Len(a) THEN <<>> ELSE BSubS(a, b, n, a[n] - BLimb(b, n) - c)

\* a - b for a >= b
BSub(a, b) == BNorm(BSubC(a, b, 1, 0))

RECURSIVE BCmpFrom(_, _, _)
BCmpFrom(a, b, n) ==
  IF n = 0 THEN 0
  ELSE IF a[n] > b[n] THEN 1
  ELSE IF a[n] < b[n] THEN -1
  ELSE BCmpFrom(a, b, n - 1)

\* -1, 0, 1 as a <, =, > b
BCmp(a, b) ==
  IF Len(a) > Len(b) THEN 1
  ELSE IF Len(a) < Len(b) THEN -1
  ELSE BCmpFrom(a, b, Len(a))

RECURSIVE BMulSmallC(_, _, _, _)
BMulSmallS(a, d, n, s) == <<s % Base>> \o BMulSmallC(a, d, n + 1, s \div Base)
BMulSmallC(a, d, n, c) ==
  IF n > Len(a) THEN (IF c = 0 THEN <<>> ELSE <<c>>)
  ELSE BMulSmallS(a, d, n, a[n] * d + c)

\* a * d + c for 0 <= d, c < Base
BMulSmall(a, d, c) == BNorm(BMulSmallC(a, d, 1, c))

BShlLimbs(a, k) == IF a = <<>> THEN a ELSE [n \in 1..k |-> 0] \o a

RECURSIVE BMulFrom(_, _, _)
BMulFrom(a, b, j) ==
  IF j > Len(b) THEN <<>>
  ELSE BAdd(BShlLimbs(BMulSmall(a, b[j], 0), j - 1), BMulFrom(a, b, j + 1))

BMul(a, b) == BMulFrom(a, b, 1)

\* a * 2^k
BShl(a, k) == BShlLimbs(BMulSmall(a, 2^(k % LimbBits), 0), k \div LimbBits)

\* floor(a / 2^(q * LimbBits + r)), r < LimbBits
BShrLimbs(a, q, r) ==
  IF Len(a) <= q THEN <<>>
  ELSE BNorm([n \in 1..(Len(a) - q) |->
          (a[n + q] \div 2^r) + (BLimb(a, n + q + 1) % 2^r) * 2^(LimbBits - r)])

\* floor(a / 2^k)
BShr(a, k) == BShrLimbs(a, k \div LimbBits, k % LimbBits)

RECURSIVE IntBitLen(_)
IntBitLen(n) == IF n = 0 THEN 0 ELSE 1 + IntBitLen(n \div 2)

BBitLen(a) == IF a = <<>> THEN 0 ELSE LimbBits * (Len(a) - 1) + IntBitLen(a[Len(a)])

\* bit k (the bit of weight 2^k) of a
BBit(a, k) == (BLimb(a, (k \div LimbBits) + 1) \div 2^(k % LimbBits)) % 2

\* whether a mod 2^k # 0
BLowNonzero(a, k) ==
  \/ \E n \in 1..(k \div LimbBits) : BLimb(a, n) # 0
  \/ BLimb(a, (k \div LimbBits) + 1) % 2^(k % LimbBits) # 0

BToInt(a) == BLimb(a, 1) + BLimb(a, 2) * Base

\* how many times b can still be taken from r, and what is left
RECURSIVE BFit(_, _)
BFitInc(n) == <<n[1] + 1, n[2]>>
BFit(r, b) == IF BCmp(r, b) < 0 THEN <<0, r>> ELSE BFitInc(BFit(BSub(r, b), b))

\* one step of long division: <<floor(r / b), r mod b>> for r < b * Base, b # 0.
\* The digit is estimated from the leading 15 bits of b, which never overshoots
\* and falls short by a few units, and BFit corrects it.
BDivDigitFit(d0, fit) == <<d0 + fit[1], fit[2]>>
BDivDigitEst(r, b, d0) == BDivDigitFit(d0, BFit(BSub(r, BMulSmall(b, d0, 0)), b))
BDivDigitSh(r, b, sh) ==
  BDivDigitEst(r, b, BToInt(BShr(r, sh)) \div (BToInt(BShr(b, sh)) + (IF sh > 0 THEN 1 ELSE 0)))
BDivDigit(r, b) ==
  BDivDigitSh(r, b, IF BBitLen(b) > LimbBits THEN BBitLen(b) - LimbBits ELSE 0)

\* <<floor(a / b), a mod b>> for b # 0: long division over the limbs of a, highest first
RECURSIVE BDivFrom(_, _, _, _, _)
BDivNext(a, b, n, q, dr) ==
  IF q = <<>> /\ dr[1] = 0 THEN BDivFrom(a, b, n - 1, q, dr[2])
  ELSE BDivFrom(a, b, n - 1, <<dr[1]>> \o q, dr[2])
BDivFrom(a, b, n, q, r) ==
  IF n = 0 THEN <<q, r>>
  ELSE BDivNext(a, b, n, q, BDivDigit(BNorm(<<a[n]>> \o r), b))

BDivMod(a, b) == BDivFrom(a, b, Len(a), <<>>, <<>>)

\* ---------- f64: IEEE-754 binary64 ----------
\* A finite value is (-1)^s * m * 2^e with m a natural below 2^53, kept normalised
\* (m has 53 bits, or e = MinExp for a subnormal; zero is m = <<>>, e = 0, s = 0),
\* so that two finite records are equal exactly when the two values are.
MantBits == 53
MinExp == -1074
MaxExp == 971

FZero == [k |-> "fin", s |-> 0, m |-> <<>>, e |-> 0]
FInf(s) == [k |-> "inf", s |-> s, m |-> <<>>, e |-> 0]
FNaN == [k |-> "nan", s |-> 0, m |-> <<>>, e |-> 0]

IsZero(x) == x.k = "fin" /\ x.m = <<>>

FPack(s, m, e) ==
  IF m = <<>> THEN FZero
  ELSE IF e > MaxExp THEN FInf(s)
  ELSE [k |-> "fin", s |-> s, m |-> m, e |-> e]

\* the mantissa rounded up may have reached 2^53
FPackCarry(s, m, e) ==
  IF BBitLen(m) > MantBits THEN FPack(s, BShr(m, 1), e + 1) ELSE FPack(s, m, e)

\* ties-to-even: sh low bits of M are dropped and q is what is kept
FRoundUp(M, sh, q) ==
  BBit(M, sh - 1) = 1 /\ (BLowNonzero(M, sh - 1) \/ BBit(q, 0) = 1)

FRoundShift(s, M, sh, t, q) ==
  FPackCarry(s, IF FRoundUp(M, sh, q) THEN BAdd(q, <<1>>) ELSE q, t)

\* t is the weight of the last mantissa bit of the result
FRoundAt(s, M, E, t) ==
  IF t <= E THEN FPack(s, BShl(M, E - t), t)
  ELSE FRoundShift(s, M, t - E, t, BShr(M, t - E))

FLsbExp(t) == IF t < MinExp THEN MinExp ELSE t

\* round-to-nearest, ties-to-even, of the exact value (-1)^s * M * 2^E
FRoundPack(s, M, E) ==
  IF M = <<>> THEN FZero ELSE FRoundAt(s, M, E, FLsbExp(E + BBitLen(M) - MantBits))

\* the value of a non-negative integer below 2^31
F(n) == FRoundPack(0, BFromInt(n), 0)

FNeg(x) == IF x.k = "nan" \/ IsZero(x) THEN x ELSE [x EXCEPT !.s = 1 - x.s]
FAbs(x) == IF x.k = "nan" THEN x ELSE [x EXCEPT !.s = 0]

\* -1, 0, 1 as |x| <, =, > |y|, neither a NaN
MagCmp(x, y) ==
  IF x.k = "inf" THEN (IF y.k = "inf" THEN 0 ELSE 1)
  ELSE IF y.k = "inf" THEN -1
  ELSE IF x.m = <<>> THEN (IF y.m = <<>> THEN 0 ELSE -1)
  ELSE IF y.m = <<>> THEN 1
  ELSE IF x.e > y.e THEN 1
  ELSE IF x.e < y.e THEN -1
  ELSE BCmp(x.m, y.m)

\* the comparison operators of f64 (all false on a NaN)
FLt(x, y) ==
  /\ x.k # "nan" /\ y.k # "nan"
  /\ IF x.s # y.s THEN x.s = 1
     ELSE IF x.s = 0 THEN MagCmp(x, y) < 0 ELSE MagCmp(x, y) > 0
FGt(x, y) == FLt(y, x)
FEq(x, y) == x.k # "nan" /\ y.k # "nan" /\ x = y
FGe(x, y) == FGt(x, y) \/ FEq(x, y)
FLe(x, y) == FLt(x, y) \/ FEq(x, y)

\* A * 2^E with sign hs plus B * 2^E with sign ls
FAddAligned(hs, ls, A, B, E) ==
  FRoundPack(IF hs = ls \/ BCmp(A, B) >= 0 THEN hs ELSE ls,
             IF hs = ls THEN BAdd(A, B)
             ELSE IF BCmp(A, B) >= 0 THEN BSub(A, B) ELSE BSub(B, A),
             E)

\* hi.e >= lo.e, both finite and not zero.  An addend more than 64 binary places
\* below the other only decides the rounding, as one unit 64 places down does.
FAddOrdered(hi, lo) ==
  IF hi.e - lo.e > 64
  THEN FAddAligned(hi.s, lo.s, BShl(hi.m, 64), <<1>>, hi.e - 64)
  ELSE FAddAligned(hi.s, lo.s, BShl(hi.m, hi.e - lo.e), lo.m, lo.e)

FAdd(x, y) ==
  IF x.k = "nan" \/ y.k = "nan" THEN FNaN
  ELSE IF x.k = "inf" THEN (IF y.k = "inf" /\ y.s # x.s THEN FNaN ELSE x)
  ELSE IF y.k = "inf" THEN y
  ELSE IF x.m = <<>> THEN y
  ELSE IF y.m = <<>> THEN x
  ELSE FAddOrdered(IF x.e >= y.e THEN x ELSE y, IF x.e >= y.e THEN y ELSE x)

FSub(x, y) == FAdd(x, FNeg(y))

FXor(a, b) == IF a = b THEN 0 ELSE 1

FMul(x, y) ==
  IF x.k = "nan" \/ y.k = "nan" THEN FNaN
  ELSE IF x.k = "inf" \/ y.k = "inf"
       THEN (IF IsZero(x) \/ IsZero(y) THEN FNaN ELSE FInf(FXor(x.s, y.s)))
  ELSE FRoundPack(FXor(x.s, y.s), BMul(x.m, y.m), x.e + y.e)

\* qr is the quotient and the remainder of x.m * 2^kk by y.m; the quotient has
\* more than 55 bits and a remainder left is one more, sticky, bit
FDivPack(x, y, kk, qr) ==
  FRoundPack(FXor(x.s, y.s), BMulSmall(qr[1], 2, IF qr[2] # <<>> THEN 1 ELSE 0),
             x.e - y.e - kk - 1)

FDivShifted(x, y, kk) == FDivPack(x, y, kk, BDivMod(BShl(x.m, kk), y.m))

FDiv(x, y) ==
  IF x.k = "nan" \/ y.k = "nan" THEN FNaN
  ELSE IF x.k = "inf" THEN (IF y.k = "inf" THEN FNaN ELSE FInf(FXor(x.s, y.s)))
  ELSE IF y.k = "inf" THEN FZero
  ELSE IF y.m = <<>> THEN (IF x.m = <<>> THEN FNaN ELSE FInf(FXor(x.s, y.s)))
  ELSE IF x.m = <<>> THEN FZero
  ELSE FDivShifted(x, y, 57 + BBitLen(y.m) - BBitLen(x.m))

\* f64::round: to the nearest integer, halves away from zero
FRound(x) ==
  IF x.k # "fin" \/ x.e >= 0 THEN x
  ELSE FRoundPack(x.s,
                  IF BBit(x.m, -x.e - 1) = 1 THEN BAdd(BShr(x.m, -x.e), <<1>>)
                  ELSE BShr(x.m, -x.e),
                  0)

\* usize: the naturals below 2^64
UsizeMax == BSub(BShl(<<1>>, 64), <<1>>)

BMin(a, b) == IF BCmp(a, b) > 0 THEN b ELSE a

\* `x as usize`: toward zero, saturating, 0 for a NaN
FToUsize(x) ==
  IF x.k = "nan" \/ x.s = 1 THEN <<>>
  ELSE IF x.k = "inf" THEN UsizeMax
  ELSE IF x.e < 0 THEN BShr(x.m, -x.e)
  ELSE IF x.m # <<>> /\ x.e + MantBits > 64 THEN UsizeMax
  ELSE BMin(BShl(x.m, x.e), UsizeMax)

\* `n as f64`
FFromUsize(n) == FRoundPack(0, n, 0)

\* ---------- Option and Vec ----------
None == <<>>
Some(v) == <<v>>
IsSome(o) == o # <<>>
Unwrap(o) == o[1]

\* ---------- NumberPairing (number_pairing.rs) ----------
\* fn validate_and_correct_input(requested_number, sum)
validate_and_correct_input(requested_number, s) ==
  LET non_negative == FAbs(requested_number)
  IN IF FGt(non_negative, s) THEN s ELSE non_negative

\* NumberPairing::new
new(requested_number, s) ==
  [one_number |-> validate_and_correct_input(requested_number, s), sum |-> s]

default_sum == F(8)

\* a minimum precision of 1.0
minimum_precision_coarse == F(1)

\* 0.0000000001
minimum_precision == FDiv(F(1), FMul(F(100000), F(100000)))

first(p) == p.one_number
second(p) == FSub(p.sum, p.one_number)
product(p) == FMul(p.one_number, second(p))
\* difference without the .abs()
difference_signed(p) == FSub(p.one_number, second(p))
difference(p) == FAbs(FSub(p.one_number, second(p)))
result(p) == FMul(product(p), difference(p))

\* set_first / set_second: the pairing after the call
set_first(p, requested_number) ==
  [p EXCEPT !.one_number = validate_and_correct_input(requested_number, p.sum)]
set_second(p, requested_number) ==
  [p EXCEPT !.one_number = FSub(p.sum, validate_and_correct_input(requested_number, p.sum))]

difference_from(p, other) == FAbs(FSub(result(p), result(other)))
is_equivalent_to(p, other) == FLt(difference_from(p, other), minimum_precision)

\* impl PartialEq: p == other
eq(p, other) ==
  LET sums_are_equal == FEq(p.sum, other.sum)
      stored_are_equal == FEq(first(p), first(other))
      stored_is_equal_to_inverse == FEq(first(p), second(other))
  IN (sums_are_equal /\ stored_are_equal) \/ (sums_are_equal /\ stored_is_equal_to_inverse)

\* impl Ord: p.cmp(other), on two results already computed
cmp_results(l_result, r_result) ==
  IF FGt(l_result, r_result) THEN "Greater"
  ELSE IF FLt(l_result, r_result) THEN "Less"
  ELSE "Equal"

cmp(p, other) == cmp_results(result(p), result(other))

\* ---------- NumberPairingProblem::solve (number_pairing_problem.rs) ----------
max_runs == 40

\* let multiplier = 100_000_000.0
multiplier == F(100000000)
\* a step of no index at all
multiplier_usize_zero == <<>>
multiplier_usize == FToUsize(multiplier)

\* the sums solve_with is given: small whole sums, and the instances the
\* properties below are about (8, the default; 35; 15.4; 0.04; 10000)
MaxSum == 2
SumInputs ==
  {<<n, 1>> : n \in 0..MaxSum} \cup {<<8, 1>>, <<35, 1>>, <<154, 10>>, <<4, 100>>, <<10000, 1>>}
Sums == {FDiv(F(q[1]), F(q[2])) : q \in SumInputs}

VARIABLES
  sum,                   \* problem.sum
  collect_other_results, \* the flag solve is called with
  runs_to_solve,         \* problem.runs_to_solve
  results,               \* problem.results: None or Some(Results)
  overall_best_result,   \* globals.overall_best_result
  best_results,          \* globals.best_results
  other_results,         \* globals.other_results
  run_count,             \* globals.run_count
  low, high, precision,  \* the arguments of the call of get_highest_result_of_seq under way
  seq_best_result, best_results_of_seq, other_results_of_seq, \* its locals
  conversion, high_bound, i,  \* its loop: the range's end and the next index
  pc,                    \* where the program is
  scanned_of_seq,        \* history: the candidates the loop of the call under way has built
  scanned_of_best,       \* history: the candidates of the call that set overall_best_result
  pairing,               \* a NumberPairing a caller holds
  last_call              \* the last call on it: <<name, argument>>

search_vars == <<sum, collect_other_results, runs_to_solve, results, overall_best_result,
                 best_results, other_results, run_count, low, high, precision,
                 seq_best_result, best_results_of_seq, other_results_of_seq,
                 conversion, high_bound, i, pc, scanned_of_seq, scanned_of_best>>
pairing_vars == <<pairing, last_call>>
vars == <<search_vars, pairing_vars>>

\* let initial_high_value = NumberPairing::new(0.0, self.sum)
initial_high_value == new(FZero, sum)

\* the closure without its test of the precision
can_be_added_whatever_precision(p) ==
  ~eq(p, initial_high_value) /\ collect_other_results

\* the closure can_be_added_to_other of the call under way
can_be_added_to_other(p) ==
  ~eq(p, initial_high_value) /\ FGe(precision, FDiv(F(1), F(100))) /\ collect_other_results

\* `if can_be_added_to_other(..) { if let Some(other) = &mut o { other.push(..) } }`
\* for every element of list, in order
RECURSIVE push_eligible(_, _)
push_eligible(o, list) ==
  IF list = <<>> \/ ~IsSome(o) THEN o
  ELSE push_eligible(IF can_be_added_to_other(Head(list))
                       THEN Some(Append(Unwrap(o), Head(list))) ELSE o,
                     Tail(list))

\* solve, up to the first call of get_highest_result_of_seq
SolveStart(s, c) ==
  /\ sum = s
  /\ collect_other_results = c
  /\ runs_to_solve = 0
  /\ results = None
  /\ overall_best_result = new(FZero, s)
  /\ best_results = <<>>
  /\ other_results = (IF c THEN Some(<<>>) ELSE None)
  /\ run_count = 0
  /\ low = FZero
  /\ high = FDiv(s, F(2))
  /\ precision = FDiv(s, F(4))
  /\ seq_best_result = new(FZero, s)
  /\ best_results_of_seq = <<>>
  /\ other_results_of_seq = None
  /\ conversion = FZero
  /\ high_bound = <<>>
  /\ i = <<>>
  /\ scanned_of_seq = <<>>
  /\ scanned_of_best = <<>>
  /\ pc = "call"

PairingIdle ==
  /\ pairing = new(FZero, default_sum)
  /\ last_call = <<"new", FZero>>

Init ==
  /\ \E s \in Sums, c \in BOOLEAN : SolveStart(s, c)
  /\ PairingIdle

\* get_highest_result_of_seq, from its entry to the head of its loop
Enter ==
  /\ pc = "call"
  /\ IF run_count >= max_runs
     THEN /\ pc' = "return"
          /\ UNCHANGED <<run_count, seq_best_result, best_results_of_seq,
                         other_results_of_seq, conversion, high_bound, i, scanned_of_seq>>
     ELSE LET conv == FMul(FDiv(F(1), precision), multiplier)
              low_bound == FToUsize(FRound(FMul(low, conv)))
              hb == FToUsize(FRound(FMul(high, conv)))
          IN /\ conversion' = conv
             /\ run_count' = run_count + 1
             /\ seq_best_result' = initial_high_value
             /\ best_results_of_seq' = <<>>
             /\ other_results_of_seq' = (IF collect_other_results THEN Some(<<>>) ELSE None)
             /\ high_bound' = hb
             /\ i' = low_bound
             /\ scanned_of_seq' = <<>>
             /\ pc' = (IF BCmp(low_bound, hb) <= 0 THEN "scan" ELSE "end")
  /\ UNCHANGED <<sum, collect_other_results, runs_to_solve, results, overall_best_result,
                 best_results, other_results, low, high, precision, scanned_of_best>>
  /\ UNCHANGED pairing_vars

\* the candidate the loop builds from index n
candidate(n) == new(FDiv(FFromUsize(n), conversion), sum)

\* a loop body that pushes every eligible candidate to the other results,
\* whatever the comparison says
scan_pushing_every_candidate(this_result) ==
  IF cmp(this_result, seq_best_result) = "Greater"
  THEN [seq_best_result |-> this_result,
        other_results_of_seq |->
          push_eligible(other_results_of_seq, best_results_of_seq \o <<this_result>>),
        best_results_of_seq |-> <<this_result>>]
  ELSE IF eq(this_result, seq_best_result)
  THEN [seq_best_result |-> seq_best_result,
        other_results_of_seq |-> push_eligible(other_results_of_seq, <<this_result>>),
        best_results_of_seq |-> Append(best_results_of_seq, this_result)]
  ELSE [seq_best_result |-> seq_best_result,
        other_results_of_seq |-> push_eligible(other_results_of_seq, <<this_result>>),
        best_results_of_seq |-> best_results_of_seq]

\* the body of the loop on this_result: the three locals after it
scan(this_result) ==
  IF cmp(this_result, seq_best_result) = "Greater"
  THEN [seq_best_result |-> this_result,
        other_results_of_seq |-> push_eligible(other_results_of_seq, best_results_of_seq),
        best_results_of_seq |-> <<this_result>>]
  ELSE IF eq(this_result, seq_best_result)
  THEN [seq_best_result |-> seq_best_result,
        other_results_of_seq |-> other_results_of_seq,
        best_results_of_seq |-> Append(best_results_of_seq, this_result)]
  ELSE [seq_best_result |-> seq_best_result,
        other_results_of_seq |-> push_eligible(other_results_of_seq, <<this_result>>),
        best_results_of_seq |-> best_results_of_seq]

\* one iteration of `for i in (low_bound..=high_bound).step_by(multiplier as usize)`
ScanStep ==
  /\ pc = "scan"
  /\ LET this_result == candidate(i)
         after == scan(this_result)
     IN /\ scanned_of_seq' = Append(scanned_of_seq, this_result)
        /\ seq_best_result' = after.seq_best_result
        /\ other_results_of_seq' = after.other_results_of_seq
        /\ best_results_of_seq' = after.best_results_of_seq
  /\ LET next_i == BAdd(i, multiplier_usize)
     IN /\ i' = next_i
        /\ pc' = (IF BCmp(next_i, high_bound) <= 0 THEN "scan" ELSE "end")
  /\ UNCHANGED <<sum, collect_other_results, runs_to_solve, results, overall_best_result,
                 best_results, other_results, run_count, low, high, precision,
                 conversion, high_bound, scanned_of_best>>
  /\ UNCHANGED pairing_vars

\* the condition with >= written for <=
condition_with_flipped_comparison ==
  \/ cmp(seq_best_result, overall_best_result) # "Less"
  \/ is_equivalent_to(seq_best_result, overall_best_result)

\* let condition_to_end_recursion = seq_best_result <= overall || seq_best_result.is_equivalent_to(overall)
condition_to_end_recursion ==
  \/ cmp(seq_best_result, overall_best_result) # "Greater"
  \/ is_equivalent_to(seq_best_result, overall_best_result)

\* get_highest_result_of_seq after its loop: stop, or promote and call again
EndRound ==
  /\ pc = "end"
  /\ IF condition_to_end_recursion
     THEN /\ runs_to_solve' = run_count
          /\ pc' = "return"
          /\ UNCHANGED <<overall_best_result, best_results, other_results, low, high,
                         precision, best_results_of_seq, other_results_of_seq,
                         scanned_of_best>>
     ELSE LET demoted == push_eligible(other_results_of_seq, best_results)
              best_number_of_seq == first(seq_best_result)
              new_precision == FDiv(precision, F(run_count * 4))
              margin_to_search_around_best_value == FDiv(precision, F(2))
              new_low_value == FSub(best_number_of_seq, margin_to_search_around_best_value)
              new_high_value == FAdd(best_number_of_seq, margin_to_search_around_best_value)
          IN /\ overall_best_result' = seq_best_result
             /\ scanned_of_best' = scanned_of_seq
             /\ best_results' = best_results_of_seq
             /\ best_results_of_seq' = <<>>
             /\ other_results' = (IF IsSome(demoted) /\ IsSome(other_results)
                                  THEN Some(Unwrap(other_results) \o Unwrap(demoted))
                                  ELSE other_results)
             /\ other_results_of_seq' = (IF IsSome(demoted) /\ IsSome(other_results)
                                         THEN Some(<<>>) ELSE demoted)
             /\ low' = (IF FLt(new_low_value, low) THEN low ELSE new_low_value)
             /\ high' = (IF FGt(new_high_value, high) THEN high ELSE new_high_value)
             /\ precision' = new_precision
             /\ pc' = "call"
             /\ UNCHANGED runs_to_solve
  /\ UNCHANGED <<sum, collect_other_results, results, run_count, seq_best_result,
                 conversion, high_bound, i, scanned_of_seq>>
  /\ UNCHANGED pairing_vars

\* other_results.sort_unstable_by(|a, b| b.cmp(a)): descending by result; the order
\* the sort leaves between two pairings of equal result is not specified, and
\* ties_first chooses between the two insertion orders.  Each entry is <<pairing, result>>.
goes_before(x, y, ties_first) ==
  cmp_results(x[2], y[2]) = "Greater" \/ (cmp_results(x[2], y[2]) = "Equal" /\ ties_first)

\* x is put before the first entry it goes before
insert_sorted(sorted, x, ties_first) ==
  IF \E j \in 1..Len(sorted) : goes_before(x, sorted[j], ties_first)
  THEN LET k == CHOOSE j \in 1..Len(sorted) :
                  /\ goes_before(x, sorted[j], ties_first)
                  /\ \A l \in 1..(j - 1) : ~goes_before(x, sorted[l], ties_first)
       IN SubSeq(sorted, 1, k - 1) \o <<x>> \o SubSeq(sorted, k, Len(sorted))
  ELSE Append(sorted, x)

RECURSIVE sort_from(_, _, _)
sort_from(list, sorted, ties_first) ==
  IF Len(sorted) = Len(list) THEN sorted
  ELSE sort_from(list,
                 insert_sorted(sorted, <<list[Len(sorted) + 1], result(list[Len(sorted) + 1])>>,
                               ties_first),
                 ties_first)

sort_unstable_by(list, ties_first) ==
  LET sorted == sort_from(list, <<>>, ties_first)
  IN [n \in 1..Len(sorted) |-> sorted[n][1]]

\* Vec::dedup: an element equal to the one kept before it is dropped
RECURSIVE dedup_from(_, _, _)
dedup_from(list, n, kept) ==
  IF n > Len(list) THEN kept
  ELSE IF kept # <<>> /\ eq(list[n], kept[Len(kept)]) THEN dedup_from(list, n + 1, kept)
  ELSE dedup_from(list, n + 1, Append(kept, list[n]))

\* the list as sorted, nothing dropped
dedup_skipped(list) == list

dedup(list) == dedup_from(list, 1, <<>>)

\* solve, after the search returned: sort the other results and store Results
Finish ==
  /\ pc = "return"
  /\ \E ties_first \in BOOLEAN :
       LET others_sorted == IF IsSome(other_results)
                            THEN Some(dedup(sort_unstable_by(Unwrap(other_results), ties_first)))
                            ELSE None
       IN results' = Some([best |-> result(overall_best_result),
                           best_pairing |-> best_results,
                           other |-> others_sorted])
  /\ other_results' = (IF IsSome(other_results) THEN Some(<<>>) ELSE None)
  /\ pc' = "done"
  /\ UNCHANGED <<sum, collect_other_results, runs_to_solve, overall_best_result,
                 best_results, run_count, low, high, precision, seq_best_result,
                 best_results_of_seq, other_results_of_seq, conversion, high_bound, i,
                 scanned_of_seq, scanned_of_best>>
  /\ UNCHANGED pairing_vars

Next == Enter \/ ScanStep \/ EndRound \/ Finish

Spec == Init /\ [][Next]_vars

\* ---------- a NumberPairing in a caller's hands ----------
\* the sums and the arguments the caller uses: whole sums, and tenths of either
\* sign and an infinity as arguments
MaxPairSum == 2
MaxTenths == 12
PairSums == {F(n) : n \in 0..MaxPairSum}
PairArgs ==
  {FDiv(F(n), F(10)) : n \in 0..MaxTenths}
    \cup {FNeg(FDiv(F(n), F(10))) : n \in 1..MaxTenths}
    \cup {FInf(0)}

\* no solve is under way
ProblemIdle ==
  /\ sum = default_sum
  /\ collect_other_results = FALSE
  /\ runs_to_solve = 0
  /\ results = None
  /\ overall_best_result = new(FZero, default_sum)
  /\ best_results = <<>>
  /\ other_results = None
  /\ run_count = 0
  /\ low = FZero
  /\ high = FZero
  /\ precision = FZero
  /\ seq_best_result = new(FZero, default_sum)
  /\ best_results_of_seq = <<>>
  /\ other_results_of_seq = None
  /\ conversion = FZero
  /\ high_bound = <<>>
  /\ i = <<>>
  /\ scanned_of_seq = <<>>
  /\ scanned_of_best = <<>>
  /\ pc = "idle"

\* let pairing = NumberPairing::new(requested_number, s)
New(requested_number, s) ==
  /\ pairing' = new(requested_number, s)
  /\ last_call' = <<"new", requested_number>>
  /\ UNCHANGED search_vars

\* pairing.set_first(requested_number)
SetFirst(requested_number) ==
  /\ pairing' = set_first(pairing, requested_number)
  /\ last_call' = <<"set_first", requested_number>>
  /\ UNCHANGED search_vars

\* pairing.set_second(requested_number)
SetSecond(requested_number) ==
  /\ pairing' = set_second(pairing, requested_number)
  /\ last_call' = <<"set_second", requested_number>>
  /\ UNCHANGED search_vars

InitPair ==
  /\ ProblemIdle
  /\ \E requested_number \in PairArgs, s \in PairSums :
       /\ pairing = new(requested_number, s)
       /\ last_call = <<"new", requested_number>>

NextPair ==
  \/ \E requested_number \in PairArgs, s \in PairSums : New(requested_number, s)
  \/ \E requested_number \in PairArgs : SetFirst(requested_number)
  \/ \E requested_number \in PairArgs : SetSecond(requested_number)

SpecPair == InitPair /\ [][NextPair]_vars

\* ---------- properties ----------
\* the Results solve stored: best, best_pairing, other
Done == pc = "done"
best_score == Unwrap(results).best
best_pairs == Unwrap(results).best_pairing
other_pairs == Unwrap(results).other

\* the f64 written as the decimal n / d
Dec(n, d) == FDiv(F(n), F(d))

\* Whether x, a positive f64 below 2^53, is within 1 / tol_den of the positive root
\* of sq[1] / sq[2], decided exactly on naturals.  With k = -x.e, A = x.m * tol_den,
\* U = 2^k and D = tol_den * 2^k: x = A / D and the tolerance is U / D.
RootAbove(A, U, D, sq) ==
  BCmp(A, U) > 0
    /\ BCmp(BMul(BFromInt(sq[2]), BMul(BSub(A, U), BSub(A, U))),
            BMul(BFromInt(sq[1]), BMul(D, D))) < 0
RootBelow(A, U, D, sq) ==
  BCmp(BMul(BFromInt(sq[2]), BMul(BAdd(A, U), BAdd(A, U))),
       BMul(BFromInt(sq[1]), BMul(D, D))) > 0
WithinOfRoot(x, tol_den, sq) ==
  /\ x.k = "fin" /\ x.s = 0 /\ x.e <= 0
  /\ RootAbove(BMul(x.m, BFromInt(tol_den)), BShl(<<1>>, -x.e),
               BMul(BFromInt(tol_den), BShl(<<1>>, -x.e)), sq)
  /\ RootBelow(BMul(x.m, BFromInt(tol_den)), BShl(<<1>>, -x.e),
               BMul(BFromInt(tol_den), BShl(<<1>>, -x.e)), sq)

\* On a + b = s the score |a - b| * a * b is a * (s - a) * (s - 2a) for a <= s / 2,
\* which is largest at a = s * (3 - sqrt(3)) / 6, where its square is s^6 / 108.
TrueMaxSquared == <<8 * 8 * 8 * 8 * 8 * 8, 108>>

\* C1: for sum = 8.0 the best score solve returns is within 1e-6 of the true
\* maximum of |a - b| * a * b over a + b = 8, a, b >= 0.
C1_BestScoreIsTrueMaximum ==
  (Done /\ sum = default_sum) => WithinOfRoot(best_score, 1000000, TrueMaxSquared)

C1_Witness == Done /\ sum = default_sum /\ FGt(best_score, F(49))

\* |first - target| <= 1e-4
NearFirst(p, target) == FLe(FAbs(FSub(first(p), target)), Dec(1, 10000))

\* C2, as claimed: with sum = 8.0 and the other results collected, best_pairs holds
\* exactly one pairing, its first within 1e-4 of 1.0572 (or of 6.9428).
C2_Original ==
  (Done /\ sum = default_sum /\ collect_other_results) =>
    /\ Len(best_pairs) = 1
    /\ \/ NearFirst(best_pairs[1], Dec(10572, 10000))
       \/ NearFirst(best_pairs[1], Dec(69428, 10000))

\* C2, amended: with sum = 8.0 and the other results collected, best_pairs holds
\* exactly one pairing, its first within 1e-4 of 1.6906 (or of 6.3094).
C2_BestPairOfDefaultSum ==
  (Done /\ sum = default_sum /\ collect_other_results) =>
    /\ Len(best_pairs) = 1
    /\ \/ NearFirst(best_pairs[1], Dec(16906, 10000))
       \/ NearFirst(best_pairs[1], Dec(63094, 10000))

C2_Witness ==
  /\ Done /\ sum = default_sum /\ collect_other_results
  /\ Len(best_pairs) = 1 /\ FLt(first(best_pairs[1]), second(best_pairs[1]))

\* C3, as claimed: for sum = 0 solve returns best = 0 and exactly one best pairing,
\* the pairing of 0 and 0.
C3_Original ==
  (Done /\ sum = FZero) =>
    /\ best_score = FZero
    /\ Len(best_pairs) = 1
    /\ first(best_pairs[1]) = FZero /\ second(best_pairs[1]) = FZero

\* the order of the places within one call, and from the last call to the end
PcRank(p) ==
  CASE p = "scan" -> 1 [] p = "end" -> 2 [] p = "call" -> 3
    [] p = "return" -> 4 [] p = "done" -> 5

\* a step makes a new call, or moves on within the call, or moves the loop to a
\* later index that is still within the range
Advances ==
  \/ run_count' > run_count
  \/ run_count' = run_count /\ PcRank(pc') > PcRank(pc)
  \/ /\ run_count' = run_count /\ pc = "scan" /\ pc' = "scan"
     /\ BCmp(i', i) > 0 /\ BCmp(i', high_bound) <= 0 /\ high_bound' = high_bound

\* C4: the search never makes more than max_runs calls, every step of solve
\* advances it (calls made, then place in the call, then loop index: an order in
\* which nothing ascends for ever, so that solve ends), and when solve has ended
\* results is Some.
C4_Terminates ==
  [](run_count <= max_runs /\ (Done => IsSome(results))) /\ [][Advances]_vars

C4_Witness == Done /\ IsSome(results) /\ run_count >= 9

min_abs(x, s) == IF FLt(FAbs(x), s) THEN FAbs(x) ELSE s

\* C6, as claimed: whatever the calls made, 0 <= first() <= sum and
\* second() == sum - first(); set_first(x) leaves first() == min(|x|, sum) and
\* set_second(x) leaves second() == min(|x|, sum).
C6_Original ==
  /\ FLe(FZero, first(pairing)) /\ FLe(first(pairing), pairing.sum)
  /\ FEq(second(pairing), FSub(pairing.sum, first(pairing)))
  /\ last_call[1] = "set_first" =>
       FEq(first(pairing), min_abs(last_call[2], pairing.sum))
  /\ last_call[1] = "set_second" =>
       FEq(second(pairing), min_abs(last_call[2], pairing.sum))

\* C7, as claimed: every candidate of the call that set the overall best whose
\* result equals the best returned is among the best pairings returned, and every
\* best pairing returned has the best result.
C7_Original ==
  Done =>
    /\ \A n \in 1..Len(scanned_of_best) :
         FEq(result(scanned_of_best[n]), best_score) =>
           \E k \in 1..Len(best_pairs) : best_pairs[k] = scanned_of_best[n]
    /\ \A k \in 1..Len(best_pairs) : FEq(result(best_pairs[k]), best_score)

\* no entry of others reaches above top or is a pairing equal to one of bests
BelowAndApart(others, bests, top) ==
  \A m \in 1..Len(others) :
    /\ FLe(result(others[m]), top)
    /\ \A n \in 1..Len(bests) : ~eq(others[m], bests[n])

\* C8: no pairing among the other results is equal to a best pairing, and none
\* has a result above the best: in the Results returned, and in the search's
\* other_results and best_results all along.
C8_OthersBelowBest ==
  /\ IsSome(other_results) =>
       BelowAndApart(Unwrap(other_results), best_results, result(overall_best_result))
  /\ (Done /\ IsSome(other_pairs)) =>
       BelowAndApart(Unwrap(other_pairs), best_pairs, best_score)

C8_Witness ==
  /\ Done /\ IsSome(other_pairs)
  /\ Len(Unwrap(other_pairs)) >= 13 /\ Len(best_pairs) = 1

\* the best of the call is <= the overall best by result, or within 1e-10 of it
Converged ==
  \/ FLe(result(seq_best_result), result(overall_best_result))
  \/ FLt(FAbs(FSub(result(seq_best_result), result(overall_best_result))),
         FDiv(F(1), FMul(F(100000), F(100000))))

Returned == pc \in {"return", "done"}

StopStep ==
  /\ (pc = "end" /\ Converged) =>
       /\ pc' = "return"
       /\ runs_to_solve' = run_count
       /\ UNCHANGED <<overall_best_result, best_results, other_results, run_count>>
  /\ (pc = "end" /\ ~Converged) => pc' = "call"
  /\ Returned =>
       /\ pc' \in {"return", "done"}
       /\ UNCHANGED <<run_count, runs_to_solve>>

\* C9: the search stops at the first call whose best is <= the overall best or
\* equivalent to it, and no sooner: that call leaves the overall best, the best
\* results and the other results as they were and sets runs_to_solve to the calls
\* made, no call follows, and runs_to_solve is the number of calls made once the
\* search has returned.
C9_StopsAtConvergence ==
  [](Returned => runs_to_solve = run_count) /\ [][StopStep]_vars

C9_Witness ==
  pc = "return" /\ Converged /\ run_count >= 2 /\ runs_to_solve = run_count

\* the pairing of 0 and sum: first = 0 or first = sum
IsZeroPair(p) == FEq(first(p), FZero) \/ FEq(first(p), p.sum)

\* what a push added: list grew from n entries, at a precision >= 0.01, with the
\* other results collected, by no pairing of 0 and sum
PushedRightly(list, n) ==
  Len(list) > n =>
    /\ FGe(precision, Dec(1, 100))
    /\ collect_other_results
    /\ \A m \in (n + 1)..Len(list) : ~IsZeroPair(list[m])

NoZeroPair(o) == IsSome(o) => \A m \in 1..Len(Unwrap(o)) : ~IsZeroPair(Unwrap(o)[m])

OtherState ==
  /\ ~collect_other_results =>
       /\ other_results = None /\ other_results_of_seq = None
       /\ Done => other_pairs = None
  /\ collect_other_results =>
       /\ NoZeroPair(other_results) /\ NoZeroPair(other_results_of_seq)
       /\ Done => (IsSome(other_pairs) /\ NoZeroPair(other_pairs))

PushStep ==
  /\ (pc = "scan" /\ IsSome(other_results_of_seq)) =>
       PushedRightly(Unwrap(other_results_of_seq'), Len(Unwrap(other_results_of_seq)))
  /\ (pc = "end" /\ IsSome(other_results)) =>
       PushedRightly(Unwrap(other_results'), Len(Unwrap(other_results)))

\* C10: a pairing is pushed to the other results only when it is not the pairing
\* of 0 and sum, the precision of the call is >= 0.01 and the other results are
\* collected; without collection there are no other results, and with it none of
\* them is the pairing of 0 and sum.
C10_OtherBucketEligibility ==
  []OtherState /\ [][PushStep]_vars

C10_Witness ==
  /\ pc = "scan" /\ collect_other_results /\ FLt(precision, Dec(1, 100))
  /\ Len(Unwrap(other_results)) > 0 /\ Len(scanned_of_seq) > 1
  /\ other_results_of_seq = Some(<<>>)

====
